---- MODULE Spec2Model ----
(***************************************************************************)
(* A model of umami.mjs, the Umami export CLI: the path normalizer, the    *)
(* auth resolver, the credential exchange, the pagination loop and the     *)
(* aggregation of rows into totals.                                        *)
(*                                                                         *)
(* JavaScript strings are sequences of one-character strings.  JavaScript  *)
(* values that come from argv, the environment or a JSON body are records  *)
(* [t, n, s]: t is the type tag, n the numeric payload, s the string       *)
(* payload (unused payloads are 0 and << >>).                              *)
(***************************************************************************)
EXTENDS Integers, Sequences, FiniteSets, TLC

-----------------------------------------------------------------------------
(* Bounds of the exploration *)

\* Longest arbitrary string handed to normalizePath.
MaxLen == 4
\* Longest tail after "scheme://" in the URL-shaped inputs of normalizePath.
MaxTail == 3

-----------------------------------------------------------------------------
(* Strings *)

Letters == {"a", "b", "h", "p", "q", "s", "t", "f", "o"}
Digits == {"0", "1", "2", "3", "4", "5", "6", "7", "8", "9"}
\* [a-zA-Z0-9+.-] of the scheme pattern, over the characters of the model.
SchemeChars == Letters \cup Digits \cup {"+", ".", "-"}
WhiteSpace == {" "}

\* The sequences over A of length at most k.
RECURSIVE StringsUpTo(_, _)
StringsUpTo(A, k) ==
  IF k = 0 THEN {<< >>}
  ELSE LET shorter == StringsUpTo(A, k - 1)
       IN shorter \cup {<<c>> \o w : c \in A, w \in {x \in shorter : Len(x) = k - 1}}

RECURSIVE DropLeadingWs(_)
DropLeadingWs(s) ==
  IF s # << >> /\ Head(s) \in WhiteSpace THEN DropLeadingWs(Tail(s)) ELSE s

RECURSIVE DropTrailingWs(_)
DropTrailingWs(s) ==
  IF s # << >> /\ s[Len(s)] \in WhiteSpace
  THEN DropTrailingWs(SubSeq(s, 1, Len(s) - 1)) ELSE s

\* String.prototype.trim
Trim(s) == DropTrailingWs(DropLeadingWs(s))

\* String.prototype.indexOf for one character, 1-based; 0 when absent (JS: -1).
IndexOf(s, c) ==
  IF \E i \in 1..Len(s) : s[i] = c
  THEN CHOOSE i \in 1..Len(s) : s[i] = c /\ \A j \in 1..(i - 1) : s[j] # c
  ELSE 0

RECURSIVE StripTrailingSlashes(_)
\* replace(/\/+$/g, '')
StripTrailingSlashes(s) ==
  IF s # << >> /\ s[Len(s)] = "/"
  THEN StripTrailingSlashes(SubSeq(s, 1, Len(s) - 1)) ELSE s

RECURSIVE CollapseSlashesPairwise(_)
\* The slip replace(/\/\//g, '/'): every PAIR of slashes becomes one slash,
\* so a run of three keeps two.
CollapseSlashesPairwise(s) ==
  IF Len(s) < 2 THEN s
  ELSE IF s[1] = "/" /\ s[2] = "/"
       THEN <<"/">> \o CollapseSlashesPairwise(SubSeq(s, 3, Len(s)))
       ELSE <<s[1]>> \o CollapseSlashesPairwise(Tail(s))

RECURSIVE CollapseSlashes(_)
\* replace(/\/{2,}/g, '/'): every run of two or more slashes becomes one.
CollapseSlashes(s) ==
  IF Len(s) < 2 THEN s
  ELSE IF s[1] = "/" /\ s[2] = "/"
       THEN CollapseSlashes(Tail(s))
       ELSE <<s[1]>> \o CollapseSlashes(Tail(s))

\* /^[a-zA-Z][a-zA-Z0-9+.-]*:\/\//.test(raw); SchemeEnd is the index of the
\* first character that cannot belong to the scheme.
SchemeEnd(raw) ==
  IF \E i \in 1..Len(raw) : raw[i] \notin SchemeChars
  THEN CHOOSE i \in 1..Len(raw) :
         raw[i] \notin SchemeChars /\ \A j \in 1..(i - 1) : raw[j] \in SchemeChars
  ELSE Len(raw) + 1

IsAbsoluteUrl(raw) ==
  /\ Len(raw) >= 1
  /\ raw[1] \in Letters
  /\ LET e == SchemeEnd(raw)
     IN /\ e >= 2
        /\ e + 2 <= Len(raw)
        /\ raw[e] = ":" /\ raw[e + 1] = "/" /\ raw[e + 2] = "/"

-----------------------------------------------------------------------------
(* new URL(raw).pathname, for the inputs that pass IsAbsoluteUrl.  The      *)
(* WHATWG parser is modelled on the characters of the model: lower-case    *)
(* letters, digits, space and the delimiters : / ? #.  Inputs with         *)
(* userinfo (@), brackets, backslashes, percent signs, dots or tabs are    *)
(* outside the modelled inputs.                                            *)

SpecialSchemes ==
  { <<"h","t","t","p">>, <<"h","t","t","p","s">>, <<"f","t","p">> }

RECURSIVE DropLeadingSlashes(_)
DropLeadingSlashes(s) ==
  IF s # << >> /\ Head(s) = "/" THEN DropLeadingSlashes(Tail(s)) ELSE s

\* Index of the first character of s that is in set D, or Len(s)+1.
FirstIn(s, D) ==
  IF \E i \in 1..Len(s) : s[i] \in D
  THEN CHOOSE i \in 1..Len(s) : s[i] \in D /\ \A j \in 1..(i - 1) : s[j] \notin D
  ELSE Len(s) + 1

RECURSIVE DecimalValue(_)
DecimalValue(ds) ==
  IF ds = << >> THEN 0
  ELSE 10 * DecimalValue(SubSeq(ds, 1, Len(ds) - 1))
       + (CHOOSE d \in 0..9 : ToString(d) = ds[Len(ds)])

RECURSIVE PercentEncodePath(_)
\* The path percent-encode set, restricted to the model's characters: space.
PercentEncodePath(s) ==
  IF s = << >> THEN << >>
  ELSE (IF Head(s) = " " THEN <<"%", "2", "0">> ELSE <<Head(s)>>)
       \o PercentEncodePath(Tail(s))

UrlFailure == [ok |-> FALSE, pathname |-> << >>]

\* The host, the port and the path of the URL, once split.
UrlOfParts(special, host, hasPort, port, pathPart) ==
  IF /\ \A i \in 1..Len(host) : host[i] \notin WhiteSpace
     /\ (hasPort => host # << >>)
     /\ (special => host # << >>)
     /\ \A i \in 1..Len(port) : port[i] \in Digits
     /\ DecimalValue(port) <= 65535
  THEN [ok |-> TRUE,
        pathname |-> IF special /\ pathPart = << >>
                     THEN <<"/">> ELSE PercentEncodePath(pathPart)]
  ELSE UrlFailure

\* The authority is host[:port]; what follows it is path[?query][#fragment].
UrlOfAuthority(special, authority, colon, afterAuth) ==
  UrlOfParts(special,
             IF colon = 0 THEN authority ELSE SubSeq(authority, 1, colon - 1),
             colon # 0,
             IF colon = 0 THEN << >> ELSE SubSeq(authority, colon + 1, Len(authority)),
             SubSeq(afterAuth, 1, FirstIn(afterAuth, {"?", "#"}) - 1))

\* rest is what follows "scheme://"; the authority ends at the first / ? #.
UrlOfRest(special, rest, aEnd) ==
  UrlOfAuthority(special, SubSeq(rest, 1, aEnd - 1),
                 IndexOf(SubSeq(rest, 1, aEnd - 1), ":"),
                 SubSeq(rest, aEnd, Len(rest)))

\* Special schemes ignore any further slashes before the authority.
UrlOfScheme(special, afterSlashes) ==
  IF special
  THEN UrlOfRest(TRUE, DropLeadingSlashes(afterSlashes),
                 FirstIn(DropLeadingSlashes(afterSlashes), {"/", "?", "#"}))
  ELSE UrlOfRest(FALSE, afterSlashes, FirstIn(afterSlashes, {"/", "?", "#"}))

\* new URL(raw): [ok |-> the parse succeeded, pathname |-> url.pathname]
UrlParse(raw) ==
  UrlOfScheme(SubSeq(raw, 1, SchemeEnd(raw) - 1) \in SpecialSchemes,
              SubSeq(raw, SchemeEnd(raw) + 3, Len(raw)))

-----------------------------------------------------------------------------
(* JavaScript values *)

Undef == [t |-> "undefined", n |-> 0, s |-> << >>]
Null == [t |-> "null", n |-> 0, s |-> << >>]
Num(k) == [t |-> "number", n |-> k, s |-> << >>]
\* A JSON number too large for a double (1e999): JSON.parse gives Infinity.
Infinite == [t |-> "infinity", n |-> 0, s |-> << >>]
Str(chars) == [t |-> "string", n |-> 0, s |-> chars]
\* A plain JSON object: Number() of it is NaN.
Obj == [t |-> "object", n |-> 0, s |-> << >>]
\* A JSON object with an own, non-callable "toString" member, such as
\* {"toString": 1}: converting it to a primitive throws a TypeError.
BadObj == [t |-> "badobject", n |-> 0, s |-> << >>]

\* a ?? b
Coalesce(a, b) == IF a.t \in {"undefined", "null"} THEN b ELSE a

\* ToBoolean, as used by !x, x ? :, x || y
Truthy(v) ==
  CASE v.t \in {"undefined", "null"} -> FALSE
    [] v.t = "number" -> v.n # 0
    [] v.t = "string" -> v.s # << >>
    [] OTHER -> TRUE

-----------------------------------------------------------------------------
(* normalizePath *)

\* The slip of leaving out lines 95-99.
StripQueryHashSkipped(raw) == raw

\* Lines 96-99: cut at the first '?' or '#', whichever comes first.
StripQueryHash(raw) ==
  LET q == IndexOf(raw, "?")
      h == IndexOf(raw, "#")
      found == {i \in {q, h} : i > 0}
  IN IF found = {} THEN raw
     ELSE LET cut == CHOOSE i \in found : \A j \in found : i <= j
          IN SubSeq(raw, 1, cut - 1)

\* Lines 103-107: a trailing slash unless the path is exactly "/".
EnsureTrailingSlash(raw) ==
  IF Len(raw) > 1 /\ raw[Len(raw)] = "/" THEN raw
  ELSE IF raw # <<"/">> THEN raw \o <<"/">>
  ELSE raw

\* Lines 86-93: the pathname of a full URL, else the string itself.
PathnameOrRaw(parsed, trimmed) ==
  IF parsed.ok
  THEN (IF parsed.pathname # << >> THEN parsed.pathname ELSE <<"/">>)
  ELSE trimmed

UrlPathOrRaw(trimmed) ==
  IF IsAbsoluteUrl(trimmed) THEN PathnameOrRaw(UrlParse(trimmed), trimmed)
  ELSE trimmed

\* The slip of leaving out line 102.
EnsureLeadingSlashSkipped(raw) == raw

\* Line 102
EnsureLeadingSlash(raw) ==
  IF raw = << >> \/ raw[1] # "/" THEN <<"/">> \o raw ELSE raw

\* Line 108
EmptyToRoot(raw) == IF raw = << >> THEN <<"/">> ELSE raw

\* Lines 83-109, for the trimmed string.
NormalizeTrimmed(trimmed) ==
  IF trimmed = << >> THEN <<"/">>
  ELSE EmptyToRoot(
         EnsureTrailingSlash(
           EnsureLeadingSlash(
             CollapseSlashes(
               StripQueryHash(
                 UrlPathOrRaw(trimmed))))))

\* Lines 82-109, for a string.
NormalizeString(str) == NormalizeTrimmed(Trim(str))

RECURSIVE DecimalDigits(_)
DecimalDigits(k) ==
  IF k < 10 THEN <<ToString(k)>>
  ELSE DecimalDigits(k \div 10) \o <<ToString(k % 10)>>

\* String(v), for the values that convert without throwing.
JsString(v) ==
  CASE v.t = "string" -> v.s
    [] v.t = "number" -> IF v.n < 0 THEN <<"-">> \o DecimalDigits(-v.n)
                         ELSE DecimalDigits(v.n)
    [] v.t = "infinity" -> <<"I","n","f","i","n","i","t","y">>
    [] OTHER -> <<"[","o","b","j","e","c","t"," ","O","b","j","e","c","t","]">>

\* Whether String(v) / Number(v) throws a TypeError (no primitive value).
ConversionThrows(v) == v.t = "badobject"

\* normalizePath(name) for a name that String() can convert.
NormalizePath(name) ==
  IF name.t \in {"undefined", "null"} THEN <<"/">>
  ELSE NormalizeString(JsString(name))


-----------------------------------------------------------------------------
(* Numbers.  A JavaScript number is a double: integers are exact up to     *)
(* 2^53 and rounded to the nearest representable value (ties to even)      *)
(* above.  The model keeps the arithmetic and scales the significand down  *)
(* to Precision bits, so that the rounding is within reach of the          *)
(* exploration.                                                            *)

Precision == 3

RECURSIVE Pow2(_)
Pow2(k) == IF k = 0 THEN 1 ELSE 2 * Pow2(k - 1)

\* The largest N such that every integer in -N..N is a value of the type.
MaxExact == Pow2(Precision)

Abs(x) == IF x < 0 THEN -x ELSE x

RECURSIVE UlpOf(_, _)
\* The spacing of the representable values around magnitude m >= 0.
UlpOf(m, ulp) == IF m < MaxExact * ulp THEN ulp ELSE UlpOf(m, 2 * ulp)

\* The multiple of ulp nearest to m >= 0, ties to the even multiple.
RoundTo(m, ulp) ==
  LET lo == (m \div ulp) * ulp
  IN IF \/ 2 * (m - lo) > ulp
        \/ (2 * (m - lo) = ulp /\ (lo \div ulp) % 2 = 1)
     THEN lo + ulp ELSE lo

\* Round to nearest, ties to the even significand.
RoundNearestEven(x) ==
  IF x < 0 THEN -RoundTo(-x, UlpOf(-x, 1)) ELSE RoundTo(x, UlpOf(x, 1))

\* a + b on numbers
FAdd(a, b) == RoundNearestEven(a + b)

NotANumber == [finite |-> FALSE, n |-> 0]

IsDigits(ds) == ds # << >> /\ \A i \in 1..Len(ds) : ds[i] \in Digits

\* StringToNumber for the numerals of the model: optional sign and decimal
\* digits, surrounding white space ignored, the empty string is 0; any other
\* string is NaN.
NumeralToNumber(w) ==
  IF w = << >> THEN [finite |-> TRUE, n |-> 0]
  ELSE IF w[1] = "-" /\ IsDigits(Tail(w))
  THEN [finite |-> TRUE, n |-> RoundNearestEven(-DecimalValue(Tail(w)))]
  ELSE IF IsDigits(w)
  THEN [finite |-> TRUE, n |-> RoundNearestEven(DecimalValue(w))]
  ELSE NotANumber

StringToNumber(str) == NumeralToNumber(Trim(str))

\* Number(v) with Number.isFinite, for the values that convert without throwing.
JsNumber(v) ==
  CASE v.t = "number" -> [finite |-> TRUE, n |-> v.n]
    [] v.t = "null" -> [finite |-> TRUE, n |-> 0]
    [] v.t = "string" -> StringToNumber(v.s)
    [] OTHER -> NotANumber

-----------------------------------------------------------------------------
(* Arguments, environment and configuration *)

DEFAULT_LIMIT == 500

\* normalizeBaseUrl
NormalizeBaseUrl(raw) ==
  IF ~Truthy(raw) THEN raw
  ELSE Str(StripTrailingSlashes(Trim(JsString(raw))))

\* toNumber(value, name): [invalid |-> it dies, value |-> undefined or the number]
ToNumberArg(value) ==
  IF value.t \in {"undefined", "null"} \/ value = Str(<< >>)
  THEN [invalid |-> FALSE, value |-> Undef]
  ELSE IF JsNumber(value).finite
  THEN [invalid |-> FALSE, value |-> Num(JsNumber(value).n)]
  ELSE [invalid |-> TRUE, value |-> Undef]

\* Lines 251-259: the first check that dies decides the error; "none" when
\* all pass.  limit0 is toNumber(args.limit ?? DEFAULT_LIMIT).
ConfigOf(baseUrl, websiteIdArg, startAt, endAt, limit0, limit) ==
  [error |-> IF ~Truthy(baseUrl) THEN "missing_baseUrl"
             ELSE IF startAt.invalid THEN "invalid_startAt"
             ELSE IF endAt.invalid THEN "invalid_endAt"
             ELSE IF startAt.value = Undef THEN "missing_startAt"
             ELSE IF endAt.value = Undef THEN "missing_endAt"
             ELSE IF limit0.invalid THEN "invalid_limit"
             ELSE IF limit.n <= 0 THEN "invalid_limit"
             ELSE "none",
   baseUrl |-> baseUrl, websiteIdArg |-> websiteIdArg,
   startAt |-> startAt.value, endAt |-> endAt.value, limit |-> limit.n]

\* Lines 250-258 of exportPathVisitors.  The numerals of the model are
\* integers, so Number.isInteger(limit) holds of every finite limit.
ReadConfig(a, e) ==
  ConfigOf(NormalizeBaseUrl(Coalesce(a.baseUrl, e.baseUrl)),
           Coalesce(a.websiteId, e.websiteId),
           ToNumberArg(a.startAt),
           ToNumberArg(a.endAt),
           ToNumberArg(Coalesce(a.limit, Num(DEFAULT_LIMIT))),
           Coalesce(ToNumberArg(Coalesce(a.limit, Num(DEFAULT_LIMIT))).value,
                    Num(DEFAULT_LIMIT)))

-----------------------------------------------------------------------------
(* resolveAuthArgs *)

NoAuth ==
  [ok |-> FALSE, error |-> "unresolved", mode |-> "none",
   shareId |-> Undef, username |-> Undef, password |-> Undef, token |-> Undef]

AuthFailure(msg) == [NoAuth EXCEPT !.error = msg]

\* The slip of asking for both username and password in the userpass family.
PresentModesBothRequired(shareId, username, password, token) ==
  SelectSeq(<< IF Truthy(shareId) THEN "share" ELSE "",
               IF Truthy(token) THEN "token" ELSE "",
               IF Truthy(username) /\ Truthy(password) THEN "userpass" ELSE "" >>,
            LAMBDA m : m # "")

\* Lines 176-180: the modes that are present, in the order share, token,
\* userpass.
PresentModes(shareId, username, password, token) ==
  SelectSeq(<< IF Truthy(shareId) THEN "share" ELSE "",
               IF Truthy(token) THEN "token" ELSE "",
               IF Truthy(username) \/ Truthy(password) THEN "userpass" ELSE "" >>,
            LAMBDA m : m # "")

\* Lines 182-189 without the check of line 185.
AuthOfModesUnchecked(modes, shareId, username, password, token) ==
  IF Len(modes) = 0 THEN AuthFailure("missing_auth")
  ELSE IF Len(modes) > 1 THEN AuthFailure("ambiguous_auth")
  ELSE [ok |-> TRUE, error |-> "none", mode |-> modes[1], shareId |-> shareId,
        username |-> username, password |-> password, token |-> token]

\* Lines 182-189.  error names the message of the die() that ends the run:
\* missing_auth (182), ambiguous_auth (183), incomplete_credentials (186).
AuthOfModes(modes, shareId, username, password, token) ==
  IF Len(modes) = 0 THEN AuthFailure("missing_auth")
  ELSE IF Len(modes) > 1 THEN AuthFailure("ambiguous_auth")
  ELSE IF modes[1] = "userpass" /\ (~Truthy(username) \/ ~Truthy(password))
  THEN AuthFailure("incomplete_credentials")
  ELSE [ok |-> TRUE, error |-> "none", mode |-> modes[1], shareId |-> shareId,
        username |-> username, password |-> password, token |-> token]

\* Lines 171-174, then the mode selection.
AuthOfInputs(shareId, username, password, token) ==
  AuthOfModes(PresentModes(shareId, username, password, token),
              shareId, username, password, token)

\* resolveAuthArgs (lines 170-190)
ResolveAuthArgs(a, e) ==
  AuthOfInputs(Coalesce(a.shareId, e.shareId), Coalesce(a.username, e.username),
               Coalesce(a.password, e.password), Coalesce(a.token, e.token))

-----------------------------------------------------------------------------
(* Requests, responses, rows *)

NoHeaders == [shareToken |-> Undef, bearer |-> Undef]
NoCreds == [websiteId |-> Undef, headers |-> NoHeaders]
NoConfig ==
  [error |-> "unread", baseUrl |-> Undef, websiteIdArg |-> Undef,
   startAt |-> Undef, endAt |-> Undef, limit |-> 0]

\* GET {baseUrl}/api/share/{shareId}
ShareRequest(c, a) ==
  [kind |-> "share", baseUrl |-> c.baseUrl, target |-> a.shareId,
   startAt |-> Undef, endAt |-> Undef, limit |-> 0, offset |-> 0,
   headers |-> NoHeaders, username |-> Undef, password |-> Undef]

\* POST {baseUrl}/api/auth/login with {username, password}
LoginRequest(c, a) ==
  [kind |-> "login", baseUrl |-> c.baseUrl, target |-> Undef,
   startAt |-> Undef, endAt |-> Undef, limit |-> 0, offset |-> 0,
   headers |-> NoHeaders, username |-> a.username, password |-> a.password]

\* The slip of sending the page number as the offset.
MetricsRequestByPageNumber(c, cr, off) ==
  [kind |-> "metrics", baseUrl |-> c.baseUrl, target |-> cr.websiteId,
   startAt |-> c.startAt, endAt |-> c.endAt, limit |-> c.limit,
   offset |-> off \div c.limit,
   headers |-> cr.headers, username |-> Undef, password |-> Undef]

\* GET {baseUrl}/api/websites/{websiteId}/metrics/expanded?type=path&startAt=..
\*     &endAt=..&limit=..&offset=..  with the credential headers
MetricsRequest(c, cr, off) ==
  [kind |-> "metrics", baseUrl |-> c.baseUrl, target |-> cr.websiteId,
   startAt |-> c.startAt, endAt |-> c.endAt, limit |-> c.limit, offset |-> off,
   headers |-> cr.headers, username |-> Undef, password |-> Undef]

\* A value that is or is not an array
NotArray == [isArray |-> FALSE, items |-> << >>]
Array(items) == [isArray |-> TRUE, items |-> items]

\* A response: net = the fetch resolved, ok = res.ok, json = the body parses;
\* token/websiteId are the members of a JSON object body, top/data/rows its
\* array forms (the body itself, body.data, body.rows).
Response(net, ok, json, token, websiteId, top, data, rows) ==
  [net |-> net, ok |-> ok, json |-> json, token |-> token, websiteId |-> websiteId,
   top |-> top, data |-> data, rows |-> rows]

\* No response yet
NoResponse == Response(FALSE, FALSE, FALSE, Undef, Undef, NotArray, NotArray, NotArray)

\* The fetch rejects; the status is not 2xx (with a body that would
\* otherwise be accepted, or with none); the body is not JSON.
FailedResponses ==
  { Response(FALSE, FALSE, FALSE, Undef, Undef, NotArray, NotArray, NotArray),
    Response(TRUE, FALSE, TRUE, Str(<<"T">>), Str(<<"W">>), Array(<< >>), NotArray,
             NotArray),
    Response(TRUE, FALSE, FALSE, Undef, Undef, NotArray, NotArray, NotArray),
    Response(TRUE, TRUE, FALSE, Undef, Undef, NotArray, NotArray, NotArray) }

\* The slip of leaving out the check of res.ok.
FetchFailureIgnoringStatus(resp) ==
  IF ~resp.net THEN "transport_error"
  ELSE IF ~resp.json THEN "invalid_json"
  ELSE "none"

\* fetchOrDie then readJsonStrict (lines 145-168): the die() that ends the
\* run, or "none".
FetchFailure(resp) ==
  IF ~resp.net THEN "transport_error"
  ELSE IF ~resp.ok THEN "http_status"
  ELSE IF ~resp.json THEN "invalid_json"
  ELSE "none"

HttpFailures ==
  {"transport_error", "http_status", "invalid_json", "share_missing_token",
   "login_missing_token", "unexpected_shape"}

ConfigErrors ==
  {"missing_baseUrl", "invalid_startAt", "invalid_endAt", "missing_startAt",
   "missing_endAt", "invalid_limit", "missing_auth", "ambiguous_auth",
   "incomplete_credentials", "missing_token", "missing_websiteId"}

\* The slip of trying body.rows before body.data.
ExtractRowsPreferringRows(body) ==
  IF body.top.isArray THEN body.top
  ELSE IF body.rows.isArray THEN body.rows
  ELSE IF body.data.isArray THEN body.data
  ELSE NotArray

\* extractRows (lines 240-245): the first array among body, body.data, body.rows
ExtractRows(body) ==
  IF body.top.isArray THEN body.top
  ELSE IF body.data.isArray THEN body.data
  ELSE IF body.rows.isArray THEN body.rows
  ELSE NotArray

Row(name, visitors) == [name |-> name, visitors |-> visitors]

EmptyTotals == [k \in {} |-> 0]

TotalOf(tot, key) == IF key \in DOMAIN tot THEN tot[key] ELSE 0

\* The slip 'totals[path] = visitors': the last row of a key wins.
AddVisitorsOverwriting(tot, path, visitors) ==
  [k \in DOMAIN tot \cup {path} |-> IF k = path THEN visitors ELSE tot[k]]

\* The slip 'totals[path] ??= visitors': the first row of a key wins.
AddVisitorsKeepingFirst(tot, path, visitors) ==
  [k \in DOMAIN tot \cup {path} |->
     IF k = path THEN (IF path \in DOMAIN tot THEN tot[path] ELSE visitors)
     ELSE tot[k]]

\* Line 285: totals[path] = (totals[path] ?? 0) + visitors
AddVisitors(tot, path, visitors) ==
  [k \in DOMAIN tot \cup {path} |->
     IF k = path THEN FAdd(TotalOf(tot, path), visitors) ELSE tot[k]]

\* Lines 283-285, once Number(row?.visitors ?? 0) has not thrown.
AccumulateNumber(acc, name, visitors) ==
  IF ~visitors.finite THEN acc
  ELSE IF ConversionThrows(name) THEN [acc EXCEPT !.threw = TRUE]
  ELSE [acc EXCEPT !.totals = AddVisitors(acc.totals, NormalizePath(name), visitors.n)]

\* One turn of the loop over a page's rows (lines 280-286); threw = a
\* conversion threw a TypeError, which ends the loop and the run.
AccumulateRow(acc, row) ==
  IF acc.threw THEN acc
  ELSE IF ConversionThrows(Coalesce(row.visitors, Num(0)))
  THEN [acc EXCEPT !.threw = TRUE]
  ELSE AccumulateNumber(acc, row.name, JsNumber(Coalesce(row.visitors, Num(0))))

RECURSIVE AccumulateFrom(_, _)
AccumulateFrom(acc, page) ==
  IF page = << >> THEN acc
  ELSE AccumulateFrom(AccumulateRow(acc, Head(page)), Tail(page))

\* for (const row of rows) { ... } over one page
AccumulatePage(tot, page) == AccumulateFrom([totals |-> tot, threw |-> FALSE], page)

-----------------------------------------------------------------------------
(* State *)

VARIABLES
  args,      \* the parsed command line of export-path-visitors
  env,       \* process.env, the UMAMI_* variables
  pc,        \* where exportPathVisitors is: start, share, login, metrics,
             \* write, done (returned) or dead (the process exited early)
  exit,      \* "running", "ok", or the reason the process exited early
  cfg,       \* baseUrl, websiteIdArg, startAt, endAt, limit (lines 250-259)
  auth,      \* the result of resolveAuthArgs
  creds,     \* { websiteId, headers } returned by getAuthHeaders
  offset,    \* the loop variable of the pagination loop
  totals,    \* the totals object
  out,       \* what was written to the output sink
  sent,      \* history: every HTTP request sent, in order
  received,  \* history: the rows of every non-empty page received, in order
  nPages,    \* history: the number of non-empty pages received
  nAccum,    \* history: the number of pages whose row loop ran to its end
  nResp,     \* history: the number of HTTP responses (or failures) received
  badSeen,   \* history: some HTTP call ended in a failure
  lastResp,  \* history: the last response received (when nResp > 0)
  dataset,   \* the rows the server's pages are made of
  normIn,    \* the value handed to normalizePath
  normOut,   \* the results of applying normalizePath again and again
  pool,      \* a multiset of rows, handed to the row loop in two arrangements
  left,      \* the first arrangement: rows not yet seen, totals, threw
  right      \* the second arrangement

inputVars == <<args, env, dataset>>
histVars == <<sent, received, nPages, nAccum, nResp, badSeen, lastResp>>
runVars == <<inputVars, pc, exit, cfg, auth, creds, offset, totals, out, histVars>>
normVars == <<normIn, normOut>>
foldVars == <<pool, left, right>>
vars == <<runVars, normVars, foldVars>>


NoArgs ==
  [baseUrl |-> Undef, websiteId |-> Undef, startAt |-> Undef, endAt |-> Undef,
   limit |-> Undef, shareId |-> Undef, username |-> Undef, password |-> Undef,
   token |-> Undef, out |-> Undef]
NoEnv ==
  [baseUrl |-> Undef, websiteId |-> Undef, shareId |-> Undef, username |-> Undef,
   password |-> Undef, token |-> Undef]
NotWritten == [sink |-> "none", body |-> EmptyTotals]

\* No run of exportPathVisitors is in progress.
IdleRun ==
  /\ args = NoArgs /\ env = NoEnv
  /\ pc = "idle" /\ exit = "running"
  /\ cfg = NoConfig /\ auth = NoAuth /\ creds = NoCreds
  /\ offset = 0 /\ totals = EmptyTotals /\ out = NotWritten
  /\ sent = << >> /\ received = << >> /\ nPages = 0 /\ nAccum = 0
  /\ nResp = 0 /\ badSeen = FALSE /\ lastResp = NoResponse
  /\ dataset = {}

IdleNorm == normIn = Undef /\ normOut = << >>

FoldSide(rest, tot, threw) == [rest |-> rest, totals |-> tot, threw |-> threw]

IdleFold ==
  /\ pool = << >>
  /\ left = FoldSide({}, EmptyTotals, FALSE)
  /\ right = FoldSide({}, EmptyTotals, FALSE)

-----------------------------------------------------------------------------
(* exportPathVisitors.  Each action is the code that runs between two      *)
(* awaits: Begin up to the first request, one action per response.  A      *)
(* handler is an operator from the state to a step record                  *)
(* [pc, exit, creds, send]: where the run continues, why it exited, the    *)
(* credentials it holds and the requests it sends.                         *)

\* The most rows the server serves in one run.
MaxRows == 3

Dead(reason, cr) == [pc |-> "dead", exit |-> reason, creds |-> cr, send |-> << >>]

\* The slip of fetching the first two pages at once.
EnterLoopPrefetching(c, cr) ==
  [pc |-> "metrics", exit |-> "running", creds |-> cr,
   send |-> <<MetricsRequest(c, cr, 0), MetricsRequest(c, cr, c.limit)>>]

\* Entering the pagination loop (lines 264-274): the request at offset 0.
EnterLoop(c, cr) ==
  [pc |-> "metrics", exit |-> "running", creds |-> cr,
   send |-> <<MetricsRequest(c, cr, 0)>>]

\* getAuthHeaders up to its first await (lines 192-195, 210-227).
GetAuthHeadersBegin(c, a) ==
  IF a.mode = "share"
  THEN [pc |-> "share", exit |-> "running", creds |-> NoCreds,
        send |-> <<ShareRequest(c, a)>>]
  ELSE IF a.mode = "token"
  THEN IF ~Truthy(a.token) THEN Dead("missing_token", NoCreds)
       ELSE IF ~Truthy(c.websiteIdArg) THEN Dead("missing_websiteId", NoCreds)
       ELSE EnterLoop(c, [websiteId |-> c.websiteIdArg,
                          headers |-> [shareToken |-> Undef, bearer |-> a.token]])
  ELSE [pc |-> "login", exit |-> "running", creds |-> NoCreds,
        send |-> <<LoginRequest(c, a)>>]

\* The slip of starting the credential exchange whatever resolveAuthArgs
\* returned.
BeginStepWithoutAuthCheck(c, a) ==
  IF c.error # "none" THEN Dead(c.error, NoCreds)
  ELSE GetAuthHeadersBegin(c, a)

\* Lines 247-262 up to the first await.
BeginStep(c, a) ==
  IF c.error # "none" THEN Dead(c.error, NoCreds)
  ELSE IF ~a.ok THEN Dead(a.error, NoCreds)
  ELSE GetAuthHeadersBegin(c, a)

\* Lines 199-207 and the entry into the loop; websiteId is
\* websiteIdArg ?? shareWebsiteId.
AfterShareBody(c, shareToken, websiteId) ==
  IF ~Truthy(shareToken) THEN Dead("share_missing_token", NoCreds)
  ELSE IF ~Truthy(websiteId) THEN Dead("missing_websiteId", NoCreds)
  ELSE EnterLoop(c, [websiteId |-> websiteId,
                     headers |-> [shareToken |-> shareToken, bearer |-> Undef]])

\* The slip of preferring the share response's websiteId to --websiteId.
AfterSharePreferringResponse(c, resp) ==
  IF FetchFailure(resp) # "none" THEN Dead(FetchFailure(resp), NoCreds)
  ELSE AfterShareBody(c, resp.token, Coalesce(resp.websiteId, c.websiteIdArg))

\* getAuthHeaders after the share lookup (lines 195-207), then the loop.
AfterShare(c, resp) ==
  IF FetchFailure(resp) # "none" THEN Dead(FetchFailure(resp), NoCreds)
  ELSE AfterShareBody(c, resp.token, Coalesce(c.websiteIdArg, resp.websiteId))

\* The slip of leaving out the check of websiteIdArg after the login.
AfterLoginWithoutWebsiteCheck(c, resp) ==
  IF FetchFailure(resp) # "none" THEN Dead(FetchFailure(resp), NoCreds)
  ELSE IF ~Truthy(resp.token) THEN Dead("login_missing_token", NoCreds)
  ELSE EnterLoop(c, [websiteId |-> c.websiteIdArg,
                     headers |-> [shareToken |-> Undef, bearer |-> resp.token]])

\* getAuthHeaders after the login (lines 223-237), then the loop.
AfterLogin(c, resp) ==
  IF FetchFailure(resp) # "none" THEN Dead(FetchFailure(resp), NoCreds)
  ELSE IF ~Truthy(resp.token) THEN Dead("login_missing_token", NoCreds)
  ELSE IF ~Truthy(c.websiteIdArg) THEN Dead("missing_websiteId", NoCreds)
  ELSE EnterLoop(c, [websiteId |-> c.websiteIdArg,
                     headers |-> [shareToken |-> Undef, bearer |-> resp.token]])

LoopStep(kind, why, tot, off, send) ==
  [kind |-> kind, exit |-> why, totals |-> tot, offset |-> off, send |-> send]

\* The slip of a maximum page count: the loop ends after its second page.
AfterPageWithPageCap(c, cr, off, acc) ==
  IF acc.threw THEN LoopStep("threw", "type_error", acc.totals, off, << >>)
  ELSE IF off >= c.limit THEN LoopStep("empty", "running", acc.totals, off, << >>)
  ELSE LoopStep("page", "running", acc.totals, off + c.limit,
                <<MetricsRequest(c, cr, off + c.limit)>>)

\* Lines 280-287: the row loop has run over a non-empty page.
AfterPage(c, cr, off, acc) ==
  IF acc.threw THEN LoopStep("threw", "type_error", acc.totals, off, << >>)
  ELSE LoopStep("page", "running", acc.totals, off + c.limit,
                <<MetricsRequest(c, cr, off + c.limit)>>)

\* The slip of ending the loop at the first page shorter than limit.
AfterRowsStoppingAtShortPage(c, cr, off, tot, rows) ==
  IF ~rows.isArray THEN LoopStep("failed", "unexpected_shape", tot, off, << >>)
  ELSE IF Len(rows.items) < c.limit THEN LoopStep("empty", "running", tot, off, << >>)
  ELSE AfterPage(c, cr, off, AccumulatePage(tot, rows.items))

\* Lines 276-287: rows is extractRows(json).
AfterRows(c, cr, off, tot, rows) ==
  IF ~rows.isArray THEN LoopStep("failed", "unexpected_shape", tot, off, << >>)
  ELSE IF Len(rows.items) = 0 THEN LoopStep("empty", "running", tot, off, << >>)
  ELSE AfterPage(c, cr, off, AccumulatePage(tot, rows.items))

\* The loop body after the metrics response (lines 274-287).  kind: "failed"
\* (a die), "threw" (an uncaught TypeError in the row loop), "empty" (break)
\* or "page" (accumulated; the next request follows).
AfterMetrics(c, cr, off, tot, resp) ==
  IF FetchFailure(resp) # "none"
  THEN LoopStep("failed", FetchFailure(resp), tot, off, << >>)
  ELSE AfterRows(c, cr, off, tot, ExtractRows(resp))

\* What the server may answer to a handshake request.
ShareResponses ==
  FailedResponses \cup
  { Response(TRUE, TRUE, TRUE, tk, w, NotArray, NotArray, NotArray) :
      tk \in {Undef, Str(<<"T">>)}, w \in {Undef, Str(<<"W">>)} }

LoginResponses ==
  FailedResponses \cup
  { Response(TRUE, TRUE, TRUE, tk, Undef, NotArray, NotArray, NotArray) :
      tk \in {Undef, Str(<<"L">>)} }

\* What the server may answer to a metrics request: a failure, a body of no
\* known shape, or a page of at most room rows of its dataset in one of the
\* accepted shapes (bare array, {data}, {rows}, or both members).
MetricsResponses(ds, room) ==
  FailedResponses \cup
  { Response(TRUE, TRUE, TRUE, Undef, Undef, NotArray, NotArray, NotArray) } \cup
  UNION { { Response(TRUE, TRUE, TRUE, Undef, Undef, Array(p), NotArray, NotArray),
            Response(TRUE, TRUE, TRUE, Undef, Undef, NotArray, Array(p), NotArray),
            Response(TRUE, TRUE, TRUE, Undef, Undef, NotArray, NotArray, Array(p)),
            Response(TRUE, TRUE, TRUE, Undef, Undef, NotArray, Array(p), Array(<< >>)),
            Response(TRUE, TRUE, TRUE, Undef, Undef, NotArray, Array(<< >>), Array(p)) } :
          p \in StringsUpTo(ds, room) }

\* What the server did, whatever the client makes of it: the call ended in
\* a transport error, a non-2xx status, a body that is not JSON, or a body
\* of no recognized shape for the endpoint.
BadResponse(endpoint, resp) ==
  \/ ~resp.net \/ ~resp.ok \/ ~resp.json
  \/ (endpoint \in {"share", "login"} /\ ~Truthy(resp.token))
  \/ (endpoint = "metrics"
        /\ ~resp.top.isArray /\ ~resp.data.isArray /\ ~resp.rows.isArray)

\* The rows of the page a good metrics response delivers.
PageOf(resp) ==
  IF BadResponse("metrics", resp) THEN << >> ELSE ExtractRows(resp).items

Begin ==
  /\ pc = "start"
  /\ cfg' = ReadConfig(args, env)
  /\ auth' = IF cfg'.error = "none" THEN ResolveAuthArgs(args, env) ELSE NoAuth
  /\ \E step \in {BeginStep(cfg', auth')} :
       /\ pc' = step.pc /\ exit' = step.exit /\ creds' = step.creds
       /\ sent' = sent \o step.send
  /\ UNCHANGED <<inputVars, offset, totals, out, received, nPages, nAccum, nResp,
                 badSeen, lastResp, normVars, foldVars>>

ShareResponse ==
  /\ pc = "share"
  /\ \E resp \in ShareResponses :
       \E step \in {AfterShare(cfg, resp)} :
          /\ pc' = step.pc /\ exit' = step.exit /\ creds' = step.creds
          /\ sent' = sent \o step.send
          /\ badSeen' = (badSeen \/ BadResponse("share", resp))
          /\ lastResp' = resp
  /\ nResp' = nResp + 1
  /\ UNCHANGED <<inputVars, cfg, auth, offset, totals, out, received, nPages, nAccum,
                 normVars, foldVars>>

LoginResponse ==
  /\ pc = "login"
  /\ \E resp \in LoginResponses :
       \E step \in {AfterLogin(cfg, resp)} :
          /\ pc' = step.pc /\ exit' = step.exit /\ creds' = step.creds
          /\ sent' = sent \o step.send
          /\ badSeen' = (badSeen \/ BadResponse("login", resp))
          /\ lastResp' = resp
  /\ nResp' = nResp + 1
  /\ UNCHANGED <<inputVars, cfg, auth, offset, totals, out, received, nPages, nAccum,
                 normVars, foldVars>>

\* The response to the metrics request in flight, the rest of the loop body
\* and, when the loop ends without --out, the write to stdout (line 295).
MetricsResponse ==
  /\ pc = "metrics"
  /\ \E resp \in MetricsResponses(dataset, MaxRows - Len(received)) :
       \E step \in {AfterMetrics(cfg, creds, offset, totals, resp)},
          page \in {PageOf(resp)}, toFile \in {Truthy(args.out)} :
          /\ totals' = step.totals
          /\ offset' = step.offset
          /\ sent' = sent \o step.send
          /\ pc' = CASE step.kind = "page" -> "metrics"
                     [] step.kind = "empty" -> IF toFile THEN "write" ELSE "done"
                     [] OTHER -> "dead"
          /\ exit' = IF step.kind = "empty" /\ ~toFile THEN "ok" ELSE step.exit
          /\ out' = IF step.kind = "empty" /\ ~toFile
                    THEN [sink |-> "stdout", body |-> step.totals] ELSE out
          /\ received' = received \o page
          /\ nPages' = IF page # << >> THEN nPages + 1 ELSE nPages
          /\ nAccum' = IF step.kind = "page" THEN nAccum + 1 ELSE nAccum
          /\ badSeen' = (badSeen \/ BadResponse("metrics", resp))
          /\ lastResp' = resp
  /\ nResp' = nResp + 1
  /\ UNCHANGED <<inputVars, cfg, auth, creds, normVars, foldVars>>

\* Lines 290-293: mkdir and writeFile, which succeed or reject.
WriteFile ==
  /\ pc = "write"
  /\ \E fsOk \in BOOLEAN :
       IF fsOk
       THEN /\ out' = [sink |-> "file", body |-> totals]
            /\ pc' = "done" /\ exit' = "ok"
       ELSE /\ out' = out
            /\ pc' = "dead" /\ exit' = "fs_error"
  /\ UNCHANGED <<inputVars, cfg, auth, creds, offset, totals, histVars, normVars, foldVars>>

\* The rows of the plain dataset: two names of the same path.
RowA3 == Row(Str(<<"/", "a">>), Num(3))
RowASlash2 == Row(Str(<<"/", "a", "/">>), Num(2))
PlainRows == {RowA3, RowASlash2}

\* Untrusted rows: a missing name and count, a count that is no number,
\* and a count that cannot be converted at all.
MalformedRows ==
  PlainRows \cup
  { Row(Undef, Undef),
    Row(Str(<<"/", "a">>), Str(<<"a", "b", "c">>)),
    Row(Str(<<"/", "a">>), BadObj) }

\* Untrusted rows: a negative count, and a count at the edge of the exact
\* integers.
SignedRows ==
  PlainRows \cup
  { Row(Str(<<"a">>), Num(-1)),
    Row(Str(<<"/", "a", "/">>), Num(MaxExact)) }

AuthValues(v) == {Undef, Str(v)}

\* Command lines over every choice of required option and auth option.
RunArgs ==
  { [baseUrl |-> b, websiteId |-> w, startAt |-> sa, endAt |-> ea, limit |-> l,
     shareId |-> sh, username |-> u, password |-> pw, token |-> tk, out |-> o] :
      b \in {Undef, Str(<<"/">>), Str(<<"h", "/">>)},
      w \in {Undef, Str(<< >>), Str(<<"W", "1">>)},
      sa \in {Undef, Str(<<"1">>), Str(<<"x">>)},
      ea \in {Undef, Str(<<"2">>)},
      l \in {Undef, Str(<<"0">>), Str(<<"2">>)},
      sh \in AuthValues(<<"S", "1">>), u \in AuthValues(<<"u">>),
      pw \in AuthValues(<<"p">>), tk \in AuthValues(<<"K">>),
      o \in {Undef, Str(<<"f">>)} }

RunEnvs == { [NoEnv EXCEPT !.websiteId = w] : w \in {Undef, Str(<<"E">>)} }

\* The end-to-end scenario: share mode against an untrusted dataset.
ScenarioArgs ==
  { [NoArgs EXCEPT !.baseUrl = Str(<<"a">>), !.shareId = Str(<<"S", "1">>),
                   !.startAt = Str(<<"1">>), !.endAt = Str(<<"2">>), !.limit = l] :
      l \in {Undef, Str(<<"2">>)} }

\* The state of a process that has parsed its command line.
RunStart ==
  /\ pc = "start" /\ exit = "running"
  /\ cfg = NoConfig /\ auth = NoAuth /\ creds = NoCreds
  /\ offset = 0 /\ totals = EmptyTotals /\ out = NotWritten
  /\ sent = << >> /\ received = << >> /\ nPages = 0 /\ nAccum = 0
  /\ nResp = 0 /\ badSeen = FALSE /\ lastResp = NoResponse
  /\ IdleNorm
  /\ IdleFold

InitRun ==
  /\ \/ args \in RunArgs /\ env \in RunEnvs /\ dataset = PlainRows
     \/ args \in ScenarioArgs /\ env = NoEnv /\ dataset \in {MalformedRows, SignedRows}
  /\ RunStart

Init == InitRun

Next == Begin \/ ShareResponse \/ LoginResponse \/ MetricsResponse \/ WriteFile

Spec == Init /\ [][Next]_vars

\* Every HTTP request eventually completes (its await resumes), and so does
\* every other step of the run.
\* One command line for each auth mode, to stdout or to a file.
LiveArgs ==
  { [NoArgs EXCEPT !.baseUrl = Str(<<"a">>), !.websiteId = Str(<<"W", "1">>),
                   !.startAt = Str(<<"1">>), !.endAt = Str(<<"2">>),
                   !.limit = Str(<<"2">>), !.shareId = m[1], !.username = m[2],
                   !.password = m[2], !.token = m[3], !.out = o] :
      m \in { <<Str(<<"S", "1">>), Undef, Undef>>,
              <<Undef, Str(<<"u">>), Undef>>,
              <<Undef, Undef, Str(<<"K">>)>> },
      o \in {Undef, Str(<<"f">>)} }

\* A good row and one whose count cannot be converted.
LiveRows == {RowA3, Row(Str(<<"/", "a">>), BadObj)}

InitLive ==
  /\ RunStart
  /\ args \in LiveArgs /\ env = NoEnv /\ dataset = LiveRows

SpecLive == InitLive /\ [][Next]_vars /\ WF_vars(Next)

-----------------------------------------------------------------------------
(* Properties of a run *)

HasShareId == Truthy(Coalesce(args.shareId, env.shareId))
HasToken == Truthy(Coalesce(args.token, env.token))
HasUsername == Truthy(Coalesce(args.username, env.username))
HasPassword == Truthy(Coalesce(args.password, env.password))

CountTrue(flags) == Cardinality({i \in 1..Len(flags) : flags[i]})

AuthErrors == {"missing_auth", "ambiguous_auth", "incomplete_credentials"}

AuthFailed == ~auth.ok /\ auth.mode = "none" /\ auth.error \in AuthErrors
AuthSucceeded(mode) == auth.ok /\ auth.mode = mode /\ auth.error = "none"

\* die() exits with code 1 (lines 63-66); a run that returns exits with 0.
ExitCode(why) == IF why = "ok" THEN 0 ELSE 1

\* The pagination loop has ended at an empty page.
LoopEnded == pc \in {"write", "done"} \/ exit = "fs_error"

MetricsSent == Cardinality({i \in 1..Len(sent) : sent[i].kind = "metrics"})

\* The row's visitors converts to a finite number.
Counts(row) ==
  /\ ~ConversionThrows(Coalesce(row.visitors, Num(0)))
  /\ JsNumber(Coalesce(row.visitors, Num(0))).finite

VisitorsOf(row) == JsNumber(Coalesce(row.visitors, Num(0))).n

RECURSIVE SumOfKey(_, _)
\* The sum, in the order of arrival, of the visitors of the rows of key k.
SumOfKey(rows, k) ==
  IF rows = << >> THEN 0
  ELSE IF Counts(rows[Len(rows)]) /\ NormalizePath(rows[Len(rows)].name) = k
  THEN FAdd(SumOfKey(SubSeq(rows, 1, Len(rows) - 1), k), VisitorsOf(rows[Len(rows)]))
  ELSE SumOfKey(SubSeq(rows, 1, Len(rows) - 1), k)

\* One key for each normalized name of a row that counts, with its sum.
ExpectedTotals(rows) ==
  [k \in {NormalizePath(rows[i].name) : i \in {j \in 1..Len(rows) : Counts(rows[j])}}
     |-> SumOfKey(rows, k)]

KeyA == <<"/", "a", "/">>

\* C1: in every successful run the emitted Totals is the fold of the rows of
\* all non-empty pages received: each key maps to the sum of the finite
\* visitors of the rows whose name normalizes to it, and there is no other
\* key.
EmittedTotalsAreTheFold ==
  pc = "done" => (out.sink # "none" /\ out.body = ExpectedTotals(received))

\* The end-to-end scenario: share response {token T, websiteId W}, one page
\* [{/a, 3}, {/a/, 2}], then the empty page; the output is {"/a/": 5}.
EndToEndScenarioSeen ==
  /\ pc = "done"
  /\ auth.mode = "share"
  /\ creds = [websiteId |-> Str(<<"W">>),
              headers |-> [shareToken |-> Str(<<"T">>), bearer |-> Undef]]
  /\ received = <<RowA3, RowASlash2>> /\ nPages = 1
  /\ out.body = [k \in {KeyA} |-> 5]

\* C3: when the server has answered with k non-empty pages and then an empty
\* page, the loop has made exactly k accumulation steps, over exactly the
\* rows of those pages, and exactly k+1 metrics requests, and makes no other
\* afterwards; while a request is in flight, one more request has been sent
\* than pages were accumulated.
PaginationCounts ==
  /\ LoopEnded =>
       /\ nAccum = nPages /\ MetricsSent = nPages + 1
       /\ totals = ExpectedTotals(received)
  /\ pc = "metrics" => (nAccum = nPages /\ MetricsSent = nPages + 1)

\* Three pages, each shorter than limit, then the empty page: three
\* accumulation steps and four requests.
ThreeShortPagesSeen ==
  /\ LoopEnded
  /\ nPages = 3 /\ nAccum = 3 /\ MetricsSent = 4
  /\ Len(received) < cfg.limit * 3
  /\ offset = 3 * cfg.limit

\* C4: once an HTTP call has ended in a transport error, a non-2xx status, a
\* body that is not JSON or a body of no recognized shape, the run is over
\* with a non-zero exit code, nothing was sent after the failed request, no
\* request was sent twice, and nothing was written to the output sink.
HttpFailureIsFatal ==
  badSeen =>
    /\ pc = "dead" /\ exit \in HttpFailures /\ ExitCode(exit) # 0
    /\ nResp = Len(sent)
    /\ \A i, j \in 1..Len(sent) : sent[i] = sent[j] => i = j
    /\ out = NotWritten

\* A metrics request fails after two pages were accumulated.
FailureAfterPagesSeen ==
  /\ badSeen /\ exit \in HttpFailures
  /\ nAccum >= 2 /\ totals # EmptyTotals
  /\ sent[Len(sent)].kind = "metrics" /\ sent[Len(sent)].offset = 2 * cfg.limit

\* The credentials request r carries are those of the resolved mode a only.
CarriesOnlyModeOf(r, a) ==
  /\ ~(Truthy(r.headers.shareToken) /\ Truthy(r.headers.bearer))
  /\ a.mode = "share" =>
       /\ r.kind \in {"share", "metrics"}
       /\ r.headers.bearer = Undef /\ r.username = Undef /\ r.password = Undef
       /\ r.kind = "share" => (r.target = a.shareId /\ r.headers = NoHeaders)
       /\ r.kind = "metrics" => Truthy(r.headers.shareToken)
  /\ a.mode = "token" =>
       /\ r.kind = "metrics"
       /\ r.headers = [shareToken |-> Undef, bearer |-> a.token]
       /\ r.username = Undef /\ r.password = Undef
  /\ a.mode = "userpass" =>
       /\ r.kind \in {"login", "metrics"}
       /\ r.headers.shareToken = Undef
       /\ r.kind = "login" =>
            (r.username = a.username /\ r.password = a.password
               /\ r.headers = NoHeaders)
       /\ r.kind = "metrics" =>
            (Truthy(r.headers.bearer) /\ r.username = Undef /\ r.password = Undef)

\* C6: the auth check completes before the first request: a run whose auth
\* resolution failed has sent nothing, a request is sent only after a
\* successful resolution from inputs of one mode, and every request carries
\* the credentials of that mode only.
AuthResolvedBeforeRequests ==
  /\ exit \in AuthErrors => sent = << >>
  /\ sent # << >> =>
       /\ auth.ok /\ auth.mode \in {"share", "token", "userpass"}
       /\ CountTrue(<<HasShareId, HasToken, HasUsername \/ HasPassword>>) = 1
  /\ \A i \in 1..Len(sent) : CarriesOnlyModeOf(sent[i], auth)

\* A userpass run that has logged in and asked for a page.
LoginThenMetricsSeen ==
  /\ auth.mode = "userpass" /\ Len(sent) >= 2
  /\ sent[1].kind = "login" /\ sent[2].kind = "metrics"
  /\ sent[2].headers.bearer = Str(<<"L">>)

\* C7 as stated: a row whose visitors does not convert to a finite number
\* leaves Totals unchanged and never ends the run: every non-empty page
\* received, also one made of malformed rows only, is run through to its
\* end, and Totals is the fold of the rows that convert.
MalformedRowsTolerated ==
  /\ exit # "type_error"
  /\ nAccum = nPages
  /\ totals = ExpectedTotals(received)

\* C9 as stated: every value of Totals is non-negative, the value of a key
\* never decreases from one step to the next, and Totals does not change
\* once pagination has ended.
TotalsNonNegativeAndGrowing ==
  [][ /\ \A k \in DOMAIN totals' : totals'[k] >= 0
      /\ \A k \in DOMAIN totals : k \in DOMAIN totals' /\ totals'[k] >= totals[k]
      /\ LoopEnded => totals' = totals ]_vars

-----------------------------------------------------------------------------
(* Termination of the pagination loop *)

\* The step receives a good, empty page.
EmptyPageStep == nResp' = nResp + 1 /\ nPages' = nPages /\ ~badSeen'

\* The step receives a non-empty page.
NonEmptyPageStep == nPages' = nPages + 1

\* The run is over: it returned, or the process exited early.
Terminated == pc \in {"done", "dead"}

\* C11: with every request completing, a run terminates, and it leaves the
\* loop only on an empty page or a fatal end; a non-empty page that is
\* accumulated is always followed by the next request, whatever the number of
\* pages before it, and nothing is written while pages keep coming.
LoopEndsOnlyOnEmptyPage ==
  /\ <>Terminated
  /\ [][ /\ (pc = "metrics" /\ pc' # "metrics") => (EmptyPageStep \/ pc' = "dead")
         /\ (pc = "metrics" /\ EmptyPageStep) => pc' \in {"write", "done"}
         /\ (NonEmptyPageStep /\ pc' # "dead") =>
              /\ pc' = "metrics" /\ Len(sent') = Len(sent) + 1
              /\ sent'[Len(sent')].kind = "metrics"
              /\ out' = NotWritten ]_vars

\* A run that wrote its file after two non-empty pages and an empty one.
TerminatedAfterTwoPagesSeen ==
  /\ pc = "done" /\ nPages = 2 /\ nAccum = 2 /\ out.sink = "file"

-----------------------------------------------------------------------------
(* The credential exchange *)

\* The value was supplied: it is neither undefined nor null.
Given(v) == v.t \notin {"undefined", "null"}

\* The targets (website identifiers) of the metrics requests sent.
MetricsTargets(reqs) == {reqs[i].target : i \in {j \in 1..Len(reqs) : reqs[j].kind = "metrics"}}

\* What share mode takes as the website identifier after response r.
ShareIdentifier(r) == IF Given(cfg.websiteIdArg) THEN cfg.websiteIdArg ELSE r.websiteId

\* C12: in share mode, when the share lookup has succeeded, every metrics
\* request goes to websiteIdArg if it was given and else to the websiteId of
\* the share response; when the response has no token, or neither of the two
\* is an identifier, the run ends there and no metrics request is sent.
ShareIdentifierPrecedence ==
  [][ pc = "share" =>
        /\ auth.mode = "share" /\ MetricsTargets(sent) = {}
        /\ IF /\ FetchFailure(lastResp') = "none" /\ Truthy(lastResp'.token)
              /\ Truthy(ShareIdentifier(lastResp'))
           THEN /\ pc' = "metrics"
                /\ MetricsTargets(sent') = {ShareIdentifier(lastResp')}
                /\ creds'.websiteId = ShareIdentifier(lastResp')
                /\ creds'.headers = [shareToken |-> lastResp'.token, bearer |-> Undef]
           ELSE /\ pc' = "dead" /\ exit' # "ok" /\ MetricsTargets(sent') = {} ]_vars
  /\ [](auth.mode = "share" => MetricsTargets(sent) \subseteq {creds.websiteId})

\* --websiteId W1 was given, the share response named W, and the metrics
\* request went to W1.
ShareIdentifierOverriddenSeen ==
  /\ auth.mode = "share" /\ pc = "metrics" /\ nResp = 1
  /\ cfg.websiteIdArg = Str(<<"W", "1">>) /\ lastResp.websiteId = Str(<<"W">>)
  /\ MetricsTargets(sent) = {Str(<<"W", "1">>)}

\* The number of requests of the kind sent so far.
CountOf(kind) == Cardinality({i \in 1..Len(sent) : sent[i].kind = kind})

InFlight == Len(sent) - nResp

\* C16: at most one HTTP request is in flight, and one is exactly while the
\* run awaits a response; a request is sent only when every earlier one
\* has been answered, and a metrics request only when the page of every
\* earlier metrics request has been accumulated.
OneRequestInFlight ==
  /\ [](/\ InFlight \in {0, 1}
        /\ InFlight = 1 <=> pc \in {"share", "login", "metrics"})
  /\ [][ Len(sent') # Len(sent) =>
           /\ Len(sent') = Len(sent) + 1
           /\ nResp' = Len(sent)
           /\ sent'[Len(sent')].kind = "metrics" => nAccum' = CountOf("metrics") ]_vars

\* The share lookup and the first page were answered; the request for the
\* second page is in flight.
SecondPageInFlightSeen ==
  /\ auth.mode = "share" /\ pc = "metrics"
  /\ Len(sent) = 3 /\ nResp = 2 /\ nAccum = 1 /\ InFlight = 1

\* The metrics requests sent, in order.
MetricsRequests == SelectSeq(sent, LAMBDA r : r.kind = "metrics")

\* C17: the n-th metrics request (n = 0, 1, ...) has offset n * limit, with
\* limit a positive integer; baseUrl, websiteId, credential headers, startAt,
\* endAt and limit are the same on every metrics request, those of the
\* configuration and of the credentials, which do not change once the loop
\* has been entered.
OnlyOffsetChanges ==
  /\ [](\A n \in 1..Len(MetricsRequests) :
          /\ cfg.limit \in Nat \ {0}
          /\ MetricsRequests[n].offset = (n - 1) * cfg.limit
          /\ MetricsRequests[n] =
               [MetricsRequests[1] EXCEPT !.offset = (n - 1) * cfg.limit]
          /\ MetricsRequests[n].target = creds.websiteId
          /\ MetricsRequests[n].headers = creds.headers
          /\ MetricsRequests[n].startAt = cfg.startAt
          /\ MetricsRequests[n].endAt = cfg.endAt
          /\ MetricsRequests[n].limit = cfg.limit
          /\ MetricsRequests[n].baseUrl = cfg.baseUrl)
  /\ [][pc = "metrics" => (cfg' = cfg /\ (pc' # "dead" => creds' = creds))]_vars

\* With the default limit, the third metrics request asks for offset 1000.
ThirdRequestAtTwiceLimitSeen ==
  /\ Len(MetricsRequests) = 3 /\ cfg.limit = DEFAULT_LIMIT
  /\ MetricsRequests[3].offset = 2 * DEFAULT_LIMIT

\* The step takes the rows of page as the page of the metrics response:
\* a page without rows ends the loop, a page with rows is run through the
\* row loop.
PageTaken(page) ==
  /\ received' = received \o page
  /\ totals' = AccumulatePage(totals, page).totals
  /\ IF page = << >> THEN pc' \in {"write", "done"}
     ELSE pc' = "metrics" \/ (pc' = "dead" /\ exit' = "type_error")

\* C18: the rows of a metrics response are the body itself when it is an
\* array, else its data member when that is an array, else its rows member
\* when that is an array; a body of none of these shapes ends the run with
\* the unexpected-shape error and is not taken as an empty page.
ShapesTriedInOrder ==
  [][ (pc = "metrics" /\ FetchFailure(lastResp') = "none") =>
        IF lastResp'.top.isArray THEN PageTaken(lastResp'.top.items)
        ELSE IF lastResp'.data.isArray THEN PageTaken(lastResp'.data.items)
        ELSE IF lastResp'.rows.isArray THEN PageTaken(lastResp'.rows.items)
        ELSE /\ pc' = "dead" /\ exit' = "unexpected_shape"
             /\ totals' = totals /\ out' = NotWritten ]_vars

\* After one page, a body with an empty data array and rows in its rows
\* member has ended the loop.
EmptyDataEndedLoopSeen ==
  /\ pc \in {"write", "done"} /\ nPages = 1
  /\ ~lastResp.top.isArray /\ lastResp.data = Array(<< >>)
  /\ lastResp.rows.isArray /\ lastResp.rows.items # << >>

\* C19 as stated: a run that ends with a configuration error (a missing
\* baseUrl, startAt or endAt, an invalid limit, a bad auth selection, or a
\* missing websiteId in any auth mode) has sent no request.
ConfigErrorsBeforeRequests ==
  exit \in ConfigErrors => sent = << >>

-----------------------------------------------------------------------------
(* resolveAuthArgs applied to every combination of its inputs: each option *)
(* absent, the empty string, or a value, on the command line and in the    *)
(* environment.                                                            *)

AuthInputValues(v) == {Undef, Str(<< >>), Str(v)}

AuthArgs ==
  { [NoArgs EXCEPT !.shareId = sh, !.username = u, !.password = pw, !.token = tk] :
      sh \in AuthInputValues(<<"S">>), u \in AuthInputValues(<<"u">>),
      pw \in AuthInputValues(<<"p">>), tk \in AuthInputValues(<<"K">>) }

AuthEnvs ==
  { [NoEnv EXCEPT !.shareId = sh, !.username = u, !.password = pw, !.token = tk] :
      sh \in AuthInputValues(<<"s">>), u \in AuthInputValues(<<"v">>),
      pw \in AuthInputValues(<<"q">>), tk \in AuthInputValues(<<"k">>) }

InitAuth ==
  /\ args \in AuthArgs /\ env \in AuthEnvs
  /\ pc = "resolve" /\ exit = "running"
  /\ cfg = NoConfig /\ auth = NoAuth /\ creds = NoCreds
  /\ offset = 0 /\ totals = EmptyTotals /\ out = NotWritten
  /\ sent = << >> /\ received = << >> /\ nPages = 0 /\ nAccum = 0
  /\ nResp = 0 /\ badSeen = FALSE /\ lastResp = NoResponse
  /\ dataset = {}
  /\ IdleNorm
  /\ IdleFold

ResolveAuth ==
  /\ pc = "resolve"
  /\ auth' = ResolveAuthArgs(args, env)
  /\ pc' = "resolved"
  /\ UNCHANGED <<inputVars, exit, cfg, creds, offset, totals, out, histVars, normVars, foldVars>>

NextAuth == ResolveAuth

SpecAuth == InitAuth /\ [][NextAuth]_vars

-----------------------------------------------------------------------------
(* Properties of resolveAuthArgs *)

\* An option is present when its value, from the command line unless that is
\* undefined and then from the environment, is truthy.

\* C2 as stated: with zero or at least two of {shareId, token, (username and
\* password)} present resolveAuthArgs fails; with exactly one it succeeds and
\* reports that mode.
AuthExactlyOneOfThree ==
  pc = "resolved" =>
    IF CountTrue(<<HasShareId, HasToken, HasUsername /\ HasPassword>>) = 1
    THEN AuthSucceeded(IF HasShareId THEN "share"
                       ELSE IF HasToken THEN "token" ELSE "userpass")
    ELSE AuthFailed

\* C2 as amended: the userpass family is present when username OR password
\* is; with zero or at least two families present resolveAuthArgs fails,
\* with exactly one it succeeds and reports that mode, unless that one is
\* userpass with only one of username and password, which fails too.
AuthExactlyOneFamily ==
  pc = "resolved" =>
    IF /\ CountTrue(<<HasShareId, HasToken, HasUsername \/ HasPassword>>) = 1
       /\ HasUsername = HasPassword
    THEN AuthSucceeded(IF HasShareId THEN "share"
                       ELSE IF HasToken THEN "token" ELSE "userpass")
    ELSE AuthFailed

\* A shareId with a stray username: one of the three is present, and the
\* resolution fails as ambiguous.
AuthStrayUsernameSeen ==
  /\ pc = "resolved"
  /\ HasShareId /\ ~HasToken /\ HasUsername /\ ~HasPassword
  /\ auth.error = "ambiguous_auth"

\* C5: with shareId and token absent and exactly one of username and
\* password present, resolveAuthArgs fails with the incomplete-credentials
\* error, which no other input produces (it is neither the no-auth nor the
\* ambiguous-auth error).
AuthIncompleteCredentials ==
  pc = "resolved" =>
    /\ (~HasShareId /\ ~HasToken /\ HasUsername # HasPassword)
         => (AuthFailed /\ auth.error = "incomplete_credentials")
    /\ auth.error = "incomplete_credentials"
         => (~HasShareId /\ ~HasToken /\ HasUsername # HasPassword)

AuthPasswordOnlySeen ==
  /\ pc = "resolved"
  /\ ~HasShareId /\ ~HasToken /\ ~HasUsername /\ HasPassword
  /\ auth.error = "incomplete_credentials"

-----------------------------------------------------------------------------
(* normalizePath applied to bounded inputs *)

NormAlphabet == {"a", "/", "?", "#", ":", " "}

NormSchemes == { <<"a">>, <<"h","t","t","p">> }

UrlShaped ==
  { pad \o sch \o <<":", "/", "/">> \o tl :
      pad \in {<< >>, <<" ">>}, sch \in NormSchemes,
      tl \in StringsUpTo(NormAlphabet, MaxTail) }

NormExamples ==
  { <<"p">>, <<"/","p">>, <<"/","p","/">>, <<"/","/","p","/","/">>,
    <<"/","p","?","q","=","1">>, <<"/","p","#","f">>,
    <<"h","t","t","p","s",":","/","/","h","/","p","?","q","=","1">>,
    <<"f","o","o">>, <<"/","f","o","o">>, <<"/","f","o","o","/">>,
    <<"/","/","f","o","o","/","/">>,
    <<"h","t","t","p","s",":","/","/","h","/","f","o","o","?","q","=","1">>,
    <<"h","t","t","p",":","/","/">>,
    <<"a","/","/","b","/","/","/","a">> }

\* Plain segments, and the spellings of a segment as a raw name.
Segments == { <<"a">>, <<"p">>, <<"f","o","o">> }

Spellings(p) ==
  { p, <<"/">> \o p, <<"/">> \o p \o <<"/">>,
    <<"/","/">> \o p \o <<"/","/">>,
    <<"/">> \o p \o <<"?","q","=","1">>,
    <<"/">> \o p \o <<"#","f">>,
    <<"h","t","t","p","s",":","/","/","h","/">> \o p \o <<"?","q","=","1">> }

NormInputs ==
  {Undef, Null}
    \cup {Str(w) : w \in StringsUpTo(NormAlphabet, MaxLen) \cup UrlShaped \cup NormExamples
                        \cup UNION {Spellings(p) : p \in Segments}}

InitNorm ==
  /\ normIn \in NormInputs
  /\ normOut = << >>
  /\ IdleRun
  /\ IdleFold

\* normalizePath on the input, then on its own result.
ApplyNormalize ==
  /\ Len(normOut) < 2
  /\ normOut' = Append(normOut,
                  IF normOut = << >> THEN NormalizePath(normIn)
                  ELSE NormalizePath(Str(normOut[Len(normOut)])))
  /\ UNCHANGED <<normIn, runVars, foldVars>>

NextNorm == ApplyNormalize

SpecNorm == InitNorm /\ [][NextNorm]_vars

\* C10: normalizePath(normalizePath(x)) = normalizePath(x).
NormalizeIdempotent ==
  Len(normOut) = 2 => normOut[2] = normOut[1]

\* A PathKey: not empty, beginning and ending with '/'.
IsPathKey(k) == Len(k) >= 1 /\ k[1] = "/" /\ k[Len(k)] = "/"

\* C14: for every input (a string, null or undefined) normalizePath returns
\* a non-empty string that begins and ends with '/', and exactly "/" for an
\* absent input, the empty string and "/".
NormalizeGivesPathKey ==
  Len(normOut) >= 1 =>
    /\ IsPathKey(normOut[1])
    /\ normIn \in {Undef, Null, Str(<< >>), Str(<<"/">>)} => normOut[1] = <<"/">>

\* A name with neither slash has been given both.
BareNameNormalizedSeen ==
  /\ normIn = Str(<<"a">>) /\ normOut = <<KeyA>>

\* C15: the spellings of a plain segment p as 'p', '/p', '/p/', '//p//',
\* '/p?q=1', '/p#f' and 'https://h/p?q=1' all normalize to '/p/'.
SpellingsShareOneKey ==
  \A p \in Segments :
    (Len(normOut) >= 1 /\ normIn \in {Str(w) : w \in Spellings(p)})
      => normOut[1] = <<"/">> \o p \o <<"/">>

\* The absolute URL https://h/foo?q=1 has been normalized to /foo/.
UrlSpellingNormalizedSeen ==
  /\ normIn = Str(<<"h","t","t","p","s",":","/","/","h","/","f","o","o","?","q","=","1">>)
  /\ normOut = << <<"/","f","o","o","/">> >>

\* An absolute-URL-shaped input with leading whitespace and a '?' or '#'
\* whose URL parse fails has been normalized twice.
FailedUrlNormalizedTwiceSeen ==
  /\ Len(normOut) = 2 /\ normOut[2] = normOut[1]
  /\ normIn.t = "string" /\ normIn.s # << >> /\ normIn.s[1] \in WhiteSpace
  /\ IsAbsoluteUrl(Trim(normIn.s)) /\ ~UrlParse(Trim(normIn.s)).ok
  /\ \E i \in 1..Len(normIn.s) : normIn.s[i] \in {"?", "#"}

-----------------------------------------------------------------------------
(* The accumulation loop (lines 280-286) over two arrangements of the same
   multiset of rows: each side takes the rows it has not yet seen, page by
   page, in an order and a partition of its own. *)

MaxFold == 3

\* The rows a multiset is drawn from: two keys, a count at the edge of the
\* exact integers, a count that is no number and one that cannot be converted.
FoldRows ==
  << Row(Str(<<"a">>), Num(1)),
     Row(Str(<<"/", "a", "/">>), Num(MaxExact)),
     Row(Str(<<"b">>), Num(2)),
     Row(Str(<<"b">>), Str(<<"a", "b", "c">>)),
     Row(Str(<<"/", "b">>), BadObj) >>

\* The multisets of at most MaxFold rows, each as a sequence.
FoldPools ==
  UNION { { [i \in 1..n |-> FoldRows[f[i]]] :
              f \in {g \in [1..n -> 1..Len(FoldRows)] :
                       \A i \in 1..n : \A j \in 1..n : i <= j => g[i] <= g[j]} } :
          n \in 1..MaxFold }

\* Every order of the members of S.
Arrangements(S) ==
  {p \in [1..Cardinality(S) -> S] :
     \A i \in 1..Cardinality(S) : \A j \in 1..Cardinality(S) : p[i] = p[j] => i = j}

\* Every non-empty page that can be made of the rows not yet seen.
PagesOf(rest) == UNION {Arrangements(T) : T \in (SUBSET rest) \ {{}}}

FoldPageStep(side, page, acc) ==
  FoldSide(side.rest \ {page[i] : i \in 1..Len(page)}, acc.totals, acc.threw)

\* One page through the loop of lines 280-286.
FoldPage(rows, side, page) ==
  FoldPageStep(side, page,
               AccumulatePage(side.totals, [i \in 1..Len(page) |-> rows[page[i]]]))

InitFold ==
  /\ pool \in FoldPools
  /\ left = FoldSide(1..Len(pool), EmptyTotals, FALSE)
  /\ right = FoldSide(1..Len(pool), EmptyTotals, FALSE)
  /\ IdleRun
  /\ IdleNorm

FoldLeft ==
  /\ ~left.threw
  /\ \E page \in PagesOf(left.rest) : left' = FoldPage(pool, left, page)
  /\ UNCHANGED <<pool, right, runVars, normVars>>

FoldRight ==
  /\ ~right.threw
  /\ \E page \in PagesOf(right.rest) : right' = FoldPage(pool, right, page)
  /\ UNCHANGED <<pool, left, runVars, normVars>>

NextFold == FoldLeft \/ FoldRight

SpecFold == InitFold /\ [][NextFold]_vars

\* The side has run every row through the loop.
FoldFinished(side) == side.rest = {} /\ ~side.threw

RECURSIVE SumOfMagnitudes(_)
SumOfMagnitudes(rows) ==
  IF rows = << >> THEN 0
  ELSE (IF Counts(Head(rows)) THEN Abs(VisitorsOf(Head(rows))) ELSE 0)
         + SumOfMagnitudes(Tail(rows))

\* Every partial sum of the rows is an integer addition without rounding.
ExactlySummable(rows) == SumOfMagnitudes(rows) <= MaxExact

\* Each addition rounds by at most half a unit in the last place of a sum
\* that is at most the sum of the magnitudes.
FoldTolerance(rows) == (Len(rows) - 1) * UlpOf(SumOfMagnitudes(rows), 1)

\* C8 as stated: every order and every partition into non-empty pages of
\* the same multiset of rows ends in the same Totals: the same keys and the
\* same value for each key.
FoldOrderIrrelevant ==
  (FoldFinished(left) /\ FoldFinished(right)) => left.totals = right.totals

\* C8 as amended: every order and every partition into non-empty pages of
\* the same multiset of rows ends in the same keys; in the same value for
\* each key when the rows sum without rounding; and otherwise in values
\* that differ by no more than the rounding of the additions.
FoldOrderIrrelevantUpToRounding ==
  (FoldFinished(left) /\ FoldFinished(right)) =>
    /\ DOMAIN left.totals = DOMAIN right.totals
    /\ ExactlySummable(pool) => left.totals = right.totals
    /\ \A k \in DOMAIN left.totals :
         Abs(left.totals[k] - right.totals[k]) <= FoldTolerance(pool)

\* Three rows of one key were summed in two orders, and the sums differ by
\* a rounding.
FoldRoundingSeen ==
  /\ FoldFinished(left) /\ FoldFinished(right)
  /\ Len(pool) = 3
  /\ DOMAIN left.totals = {KeyA}
  /\ left.totals # right.totals

====
